---- MODULE Spec2Model ----
(***************************************************************************)
(* A model of unfmt's one-shot ScanString (src/scanner.go) and of the      *)
(* pattern it compiles and runs (src/pattern.go, src/verb.go,              *)
(* src/assign.go).                                                         *)
(*                                                                         *)
(* A Go string is modelled as a sequence of one-character strings; every   *)
(* character of the model's alphabets is a single-byte code point, so byte *)
(* offsets and sequence positions agree (offset o is position o + 1).      *)
(***************************************************************************)
EXTENDS Integers, Sequences, FiniteSets, TLC

VARIABLES
    format,          \* ScanString's 'format' argument
    str,             \* ScanString's 'str' argument
    targetPtrs,      \* the targets: [kind, val, writes] per pointer
    p,               \* the pattern: verbs, segments, trueSegmentStarts, captureGroups
    pc,              \* the position inside ScanString
    err,             \* the error ScanString returns (kind "nil" while running / on success)
    groupIdx,        \* pattern.assign: index of the capture group being walked
    verbIdx,         \* pattern.assign: index of the verb inside that group
    substr,          \* pattern.assign: what is left of the group's substring
    targetPtrsIndex, \* pattern.assign: index of the next target (zero-based)
    calls,           \* pattern.assign: the converter calls made so far
    scans            \* the Scanner.ScanString calls running on one Scanner

vars == <<format, str, targetPtrs, p, pc, err, groupIdx, verbIdx, substr,
          targetPtrsIndex, calls, scans>>

(***************************************************************************)
(* Bounds of the model.                                                    *)
(***************************************************************************)
MaxFmtLen == 4
MaxFmtTokens == 5
MaxStrLen == 5
MaxTargets == 2
MaxStringTokens == 3
MaxStringLen == 4
MaxVerbTokens == 2
MaxAssignLen == 3
MaxEscapes == 2
MaxEscTokens == 3
MaxEscLen == 4
MaxCompileTokens == 4
MaxCompileLen == 7
MaxCompileStr == 2
MaxScans == 2
MaxScanTokens == 3
MaxScanStr == 3

(***************************************************************************)
(* Strings.                                                                *)
(***************************************************************************)
SeqsUpTo(S, n) == UNION {[1..k -> S] : k \in 0..n}

Slice(s, from, to) == SubSeq(s, from + 1, to)

SliceFrom(s, from) == SubSeq(s, from + 1, Len(s))

HasPrefixAt(s, sub, off) ==
    /\ off + Len(sub) <= Len(s)
    /\ \A i \in 1..Len(sub) : s[off + i] = sub[i]

RECURSIVE IndexFrom(_, _, _)
IndexFrom(s, sub, off) ==
    IF off + Len(sub) > Len(s) THEN -1
    ELSE IF HasPrefixAt(s, sub, off) THEN off
    ELSE IndexFrom(s, sub, off + 1)

Index(s, sub) == IndexFrom(s, sub, 0)

IsSpace(c) == c = " "

RECURSIVE IndexSpace(_, _)
IndexSpace(s, i) ==
    IF i >= Len(s) THEN -1
    ELSE IF IsSpace(s[i + 1]) THEN i
    ELSE IndexSpace(s, i + 1)

RECURSIVE IndexExcluded(_, _, _)
IndexExcluded(s, rns, i) ==
    IF i >= Len(s) THEN -1
    ELSE IF s[i + 1] \notin rns THEN i
    ELSE IndexExcluded(s, rns, i + 1)

RECURSIVE TrimLeftSpace(_)
TrimLeftSpace(s) ==
    IF s # <<>> /\ IsSpace(Head(s)) THEN TrimLeftSpace(Tail(s)) ELSE s

Digits == <<"0", "1", "2", "3", "4", "5", "6", "7", "8", "9">>

DigitChars == {Digits[i] : i \in 1..10}

DigitVal(c) == (CHOOSE i \in 1..10 : Digits[i] = c) - 1

RECURSIVE Atoi(_, _)
Atoi(ds, acc) ==
    IF ds = <<>> THEN acc ELSE Atoi(Tail(ds), acc * 10 + DigitVal(Head(ds)))

(***************************************************************************)
(* Errors.  kind is the sentinel the error wraps ("Unwrapped" when it      *)
(* wraps none), msg tells the return statements apart, index is the target *)
(* index pattern.assign puts in front of its errors (-1 elsewhere).        *)
(***************************************************************************)
Error(kind, msg) == [kind |-> kind, msg |-> msg, index |-> -1]

Nil == Error("nil", "")

ErrBadArg == "ErrBadArg"
ErrNoMatch == "ErrNoMatch"
ErrMultipleMatches == "ErrMultipleMatches"
ErrEmptyCapture == "ErrEmptyCapture"
ErrBug == "ErrBug"
Unwrapped == "Unwrapped"
Panic == "panic"

(***************************************************************************)
(* Verbs (src/verb.go, src/assign.go, src/pattern.go flags).               *)
(***************************************************************************)
verbBool == "t"
verbInt == "d"
verbString == "s"

flags == {"#", "-", ".", " "} \cup DigitChars

isFlag(r) == r \in flags

isSupportedVerb(r) == r \in {verbBool, verbString, verbInt}

Verb(value, start, fl) == [value |-> value, start |-> start, flags |-> fl]

VerbString(v) == <<"%">> \o v.flags \o <<v.value>>

\* the first run of decimal digits among the flags
RECURSIVE WidthFlags(_, _, _)
WidthFlags(fl, taking, acc) ==
    IF fl = <<>> THEN acc
    ELSE IF Head(fl) \in DigitChars THEN WidthFlags(Tail(fl), TRUE, Append(acc, Head(fl)))
    ELSE IF taking THEN acc
    ELSE WidthFlags(Tail(fl), taking, acc)

maxWidth(v) ==
    LET widthFlags == WidthFlags(v.flags, FALSE, <<>>)
    IN  IF Len(widthFlags) = 0
        THEN [width |-> 0, ok |-> FALSE]
        ELSE [width |-> Atoi(widthFlags, 0), ok |-> TRUE]

(***************************************************************************)
(* Compiling a format (src/pattern.go newPattern).                         *)
(***************************************************************************)
RECURSIVE parseVerbsLoop(_, _, _, _, _)
parseVerbsLoop(fmtBytes, idx, seekVerb, fl, verbs) ==
    IF fmtBytes = <<>> THEN [err |-> Nil, verbs |-> verbs]
    ELSE LET nextRune == Head(fmtBytes)
             rest == Tail(fmtBytes)
         IN  IF seekVerb
             THEN IF nextRune = "%"
                  THEN parseVerbsLoop(rest, idx + 1, FALSE, fl, verbs)
                  ELSE IF isFlag(nextRune)
                  THEN parseVerbsLoop(rest, idx + 1, TRUE, Append(fl, nextRune), verbs)
                  ELSE IF isSupportedVerb(nextRune)
                  THEN parseVerbsLoop(rest, idx + 1, FALSE, <<>>,
                           Append(verbs, Verb(nextRune, idx - (1 + Len(fl)), fl)))
                  ELSE [err |-> Error(ErrBadArg, "unsupported verb"), verbs |-> verbs]
             ELSE parseVerbsLoop(rest, idx + 1, nextRune = "%", fl, verbs)

parseVerbs(fmt) == parseVerbsLoop(fmt, 0, FALSE, <<>>, <<>>)

\* strings.ReplaceAll(format, "%%", "%")
RECURSIVE unescapeFormat(_)
unescapeFormat(fmt) ==
    IF Len(fmt) < 2 THEN fmt
    ELSE IF fmt[1] = "%" /\ fmt[2] = "%"
    THEN <<"%">> \o unescapeFormat(SubSeq(fmt, 3, Len(fmt)))
    ELSE <<Head(fmt)>> \o unescapeFormat(Tail(fmt))

Segment(value, formatStart) ==
    [value |-> value, formatStart |-> formatStart, starts |-> <<>>]

\* strings.SplitN(remainder, sep, 2): one element when sep does not occur
SplitN2(remainder, sep) ==
    LET at == Index(remainder, sep)
    IN  IF at < 0 THEN <<remainder>>
        ELSE <<Slice(remainder, 0, at), SliceFrom(remainder, at + Len(sep))>>

RECURSIVE parseSegmentsLoop(_, _, _, _, _)
parseSegmentsLoop(verbs, i, remainder, index, segments) ==
    IF i > Len(verbs)
    THEN [err |-> Nil,
          segments |-> IF Len(remainder) > 0
                       THEN Append(segments, Segment(remainder, index))
                       ELSE segments]
    ELSE LET verb == verbs[i]
             halves == SplitN2(remainder, VerbString(verb))
             withHalf == IF Len(halves[1]) > 0
                         THEN Append(segments, Segment(halves[1], index))
                         ELSE segments
             consecutive == /\ Len(halves[1]) = 0
                            /\ i > 1
                            /\ verb.value = verbs[i - 1].value
                            /\ ~maxWidth(verbs[i - 1]).ok
         IN  IF consecutive
             THEN [err |-> Error(ErrBadArg, "consecutive verbs"), segments |-> withHalf]
             ELSE IF Len(halves) < 2
             THEN [err |-> Error(Panic, "index out of range"), segments |-> withHalf]
             ELSE parseSegmentsLoop(verbs, i + 1, halves[2],
                      index + Len(halves[1]) + Len(VerbString(verb)), withHalf)

parseSegments(verbs, unescapedFormat) ==
    parseSegmentsLoop(verbs, 1, unescapedFormat, 0, <<>>)

Pattern(fmt, verbs, segments) ==
    [format |-> fmt, verbs |-> verbs, segments |-> segments,
     trueSegmentStarts |-> <<>>, captureGroups |-> <<>>]

newPattern(fmt) ==
    LET pv == parseVerbs(fmt)
        ps == parseSegments(pv.verbs, unescapeFormat(fmt))
    IN  IF pv.err # Nil
        THEN [err |-> pv.err, p |-> Pattern(<<>>, pv.verbs, <<>>)]
        ELSE [err |-> ps.err, p |-> Pattern(fmt, pv.verbs, ps.segments)]

verbCount(pat) == Len(pat.verbs)

beginsWithVerb(pat) ==
    IF Len(pat.verbs) > 0 THEN pat.verbs[1].start = 0 ELSE FALSE

endsWithVerb(pat) ==
    IF Len(pat.verbs) > 0
    THEN LET lastVerb == pat.verbs[Len(pat.verbs)]
         IN  lastVerb.start = Len(pat.format) - Len(VerbString(lastVerb))
    ELSE FALSE

(***************************************************************************)
(* Capturing (src/pattern.go capture and the three steps it runs).         *)
(***************************************************************************)
\* mutant of segmentStarts: after a hit the search resumes one place further
RECURSIVE segmentStarts_Overlapping(_, _, _, _)
segmentStarts_Overlapping(s, segment, offset, starts) ==
    IF offset > Len(s) THEN starts
    ELSE LET relativeStart == Index(SliceFrom(s, offset), segment)
             trueStart == offset + relativeStart
         IN  IF relativeStart < 0 THEN starts
             ELSE segmentStarts_Overlapping(s, segment, trueStart + 1,
                                            Append(starts, trueStart))

\* mutant of segmentStarts: only the first occurrence is recorded
segmentStarts_FirstOnly(s, segment, offset, starts) ==
    IF offset > Len(s) \/ starts # <<>> THEN starts
    ELSE LET relativeStart == Index(SliceFrom(s, offset), segment)
         IN  IF relativeStart < 0 THEN starts
             ELSE Append(starts, offset + relativeStart)

\* the inner loop of findAllSegmentStarts: leftmost-first, non-overlapping
RECURSIVE segmentStarts(_, _, _, _)
segmentStarts(s, segment, offset, starts) ==
    IF offset > Len(s) THEN starts
    ELSE LET relativeStart == Index(SliceFrom(s, offset), segment)
             trueStart == offset + relativeStart
         IN  IF relativeStart < 0 THEN starts
             ELSE segmentStarts(s, segment, trueStart + Len(segment),
                                Append(starts, trueStart))

RECURSIVE findAllLoop(_, _, _)
findAllLoop(segments, s, i) ==
    IF i > Len(segments) THEN [err |-> Nil, segments |-> segments]
    ELSE LET starts == segmentStarts(s, segments[i].value, 0, <<>>)
         IN  IF Len(starts) = 0
             THEN [err |-> Error(ErrNoMatch, "could not find substring"),
                   segments |-> segments]
             ELSE findAllLoop([segments EXCEPT ![i].starts = starts], s, i + 1)

findAllSegmentStarts(pat, s) ==
    LET r == findAllLoop(pat.segments, s, 1)
    IN  [err |-> r.err, p |-> [pat EXCEPT !.segments = r.segments]]

\* mutant of takeStart: a segment may end exactly where the next one starts
RECURSIVE takeStart_Touching(_, _, _)
takeStart_Touching(nextSegmentBack, j, set) ==
    IF j < 1 THEN set
    ELSE IF nextSegmentBack.starts[j] + Len(nextSegmentBack.value) <= set[Len(set)]
    THEN Append(set, nextSegmentBack.starts[j])
    ELSE takeStart_Touching(nextSegmentBack, j - 1, set)

\* mutant of takeStart: the earliest start of the segment that ends before the
\* set's latest entry is taken
RECURSIVE takeStart_Earliest(_, _, _)
takeStart_Earliest(nextSegmentBack, j, set) ==
    LET fits == {k \in 1..j : nextSegmentBack.starts[k] + Len(nextSegmentBack.value)
                                  < set[Len(set)]}
    IN  IF fits = {} THEN set
        ELSE Append(set, nextSegmentBack.starts[CHOOSE k \in fits :
                                                   \A k2 \in fits : k <= k2])

\* the loop over j: the latest start of the segment that ends before the set's
\* latest entry, appended to the set; the set unchanged when there is none
RECURSIVE takeStart(_, _, _)
takeStart(nextSegmentBack, j, set) ==
    IF j < 1 THEN set
    ELSE IF nextSegmentBack.starts[j] + Len(nextSegmentBack.value) < set[Len(set)]
    THEN Append(set, nextSegmentBack.starts[j])
    ELSE takeStart(nextSegmentBack, j - 1, set)

\* the loop over i, from the segment before the last back to the first
RECURSIVE candidateSet(_, _, _)
candidateSet(segments, i, set) ==
    IF i < 1 THEN set
    ELSE candidateSet(segments, i - 1,
                      takeStart(segments[i], Len(segments[i].starts), set))

RECURSIVE startSetsLoop(_, _, _)
startSetsLoop(segments, k, startSets) ==
    LET lastSegmentStarts == segments[Len(segments)].starts
    IN  IF k > Len(lastSegmentStarts) THEN startSets
        ELSE LET set == candidateSet(segments, Len(segments) - 1,
                                     <<lastSegmentStarts[k]>>)
             IN  startSetsLoop(segments, k + 1,
                     IF Len(set) = Len(segments)
                     THEN Append(startSets, set) ELSE startSets)

\* sort.Ints
RECURSIVE insertSorted(_, _)
insertSorted(sorted, x) ==
    IF sorted = <<>> THEN <<x>>
    ELSE IF x <= Head(sorted) THEN <<x>> \o sorted
    ELSE <<Head(sorted)>> \o insertSorted(Tail(sorted), x)

\* mutant of sortInts: the set is left in the order it was collected in
sortInts_Unsorted(xs) == xs

RECURSIVE sortInts(_)
sortInts(xs) ==
    IF xs = <<>> THEN <<>> ELSE insertSorted(sortInts(Tail(xs)), Head(xs))

\* mutant of getTrueSegmentStarts: of several sets of starts the first is taken
getTrueSegmentStarts_FirstOfSeveral(pat) ==
    IF Len(pat.segments) = 0 THEN [err |-> Nil, p |-> pat]
    ELSE LET startSets == startSetsLoop(pat.segments, 1, <<>>)
         IN  IF Len(startSets) < 1
             THEN [err |-> Error(ErrNoMatch, "no set of starts"), p |-> pat]
             ELSE [err |-> Nil,
                   p |-> [pat EXCEPT !.trueSegmentStarts = sortInts(startSets[1])]]

getTrueSegmentStarts(pat) ==
    IF Len(pat.segments) = 0 THEN [err |-> Nil, p |-> pat]
    ELSE LET startSets == startSetsLoop(pat.segments, 1, <<>>)
         IN  IF Len(startSets) > 1
             THEN [err |-> Error(ErrMultipleMatches, "found several; need 1"), p |-> pat]
             ELSE IF Len(startSets) < 1
             THEN [err |-> Error(ErrNoMatch, "no set of starts"), p |-> pat]
             ELSE [err |-> Nil,
                   p |-> [pat EXCEPT !.trueSegmentStarts = sortInts(startSets[1])]]

CaptureGroup(sub, verbs) == [substr |-> sub, verbs |-> verbs]

\* mutant of isEmptyCapture: an empty leading or trailing capture is let through
isEmptyCapture_Never(sub) == FALSE

\* len(substr) == 0 in front of a leading or trailing capture group
isEmptyCapture(sub) == Len(sub) = 0

\* the verbs of the pattern, in order, whose start satisfies the test
VerbsBefore(pat, formatStart) ==
    SelectSeq(pat.verbs, LAMBDA v : v.start < formatStart)

VerbsAfter(pat, formatStart) ==
    SelectSeq(pat.verbs, LAMBDA v : v.start > formatStart)

VerbsBetween(pat, formatStart, nextFormatStart) ==
    SelectSeq(pat.verbs, LAMBDA v : v.start > formatStart /\ v.start < nextFormatStart)

\* a slice expression on str with bounds that are not in str: the bounds are
\* p.trueSegmentStarts, which are offsets in the str of the call that resolved
\* them
SliceBoundsPanic == Error(Panic, "slice bounds out of range")

\* the loop over the true segment starts; groups is p.captureGroups so far
RECURSIVE captureGroupsLoop(_, _, _, _)
captureGroupsLoop(pat, s, i, groups) ==
    LET starts == pat.trueSegmentStarts
        startCount == Len(starts)
    IN  IF i > startCount THEN [err |-> Nil, groups |-> groups]
        ELSE
        LET start == starts[i]
            segment == pat.segments[i]
            leading == i = 1 /\ beginsWithVerb(pat)
            afterLeading ==
                IF leading
                THEN Append(groups, CaptureGroup(Slice(s, 0, start),
                                        VerbsBefore(pat, segment.formatStart)))
                ELSE groups
            captureFrom == start + Len(segment.value)
        IN  IF leading /\ start > Len(s)
            THEN [err |-> SliceBoundsPanic, groups |-> groups]
            ELSE IF leading /\ isEmptyCapture(Slice(s, 0, start))
            THEN [err |-> Error(ErrEmptyCapture, "expected capture at start"),
                  groups |-> groups]
            ELSE IF i = startCount
            THEN IF endsWithVerb(pat)
                 THEN IF captureFrom > Len(s)
                      THEN [err |-> SliceBoundsPanic, groups |-> afterLeading]
                      ELSE IF isEmptyCapture(SliceFrom(s, captureFrom))
                      THEN [err |-> Error(ErrEmptyCapture, "expected capture at end"),
                            groups |-> afterLeading]
                      ELSE [err |-> Nil,
                            groups |-> Append(afterLeading,
                                CaptureGroup(SliceFrom(s, captureFrom),
                                             VerbsAfter(pat, segment.formatStart)))]
                 ELSE [err |-> Nil, groups |-> afterLeading]
            ELSE LET nextSegment == pat.segments[i + 1]
                     captureTo == starts[i + 1]
                     between == Slice(s, captureFrom, captureTo)
                 IN  IF captureFrom > captureTo \/ captureTo > Len(s)
                     THEN [err |-> SliceBoundsPanic, groups |-> afterLeading]
                     ELSE IF Len(between) = 0
                     THEN [err |-> Error(ErrBug, "no string to capture between segments"),
                           groups |-> afterLeading]
                     ELSE captureGroupsLoop(pat, s, i + 1,
                              Append(afterLeading,
                                  CaptureGroup(between,
                                      VerbsBetween(pat, segment.formatStart,
                                                   nextSegment.formatStart))))

getCaptureGroups(pat, s) ==
    LET first == IF Len(pat.trueSegmentStarts) = 0
                 THEN Append(pat.captureGroups, CaptureGroup(s, pat.verbs))
                 ELSE pat.captureGroups
        r == captureGroupsLoop(pat, s, 1, first)
        verbless == \E g \in 1..Len(r.groups) : Len(r.groups[g].verbs) = 0
    IN  [err |-> IF r.err # Nil THEN r.err
                 ELSE IF verbless
                 THEN Error(ErrBug, "no verbs assigned to captured substring")
                 ELSE Nil,
         p |-> [pat EXCEPT !.captureGroups = r.groups]]

(***************************************************************************)
(* Targets and converters (src/assign.go).  A target is a pointer of one   *)
(* Go type (kind); val is what it points at and writes counts the stores   *)
(* made through it.  An "int" target is Go's 64-bit int: no input of the   *)
(* model is long enough to overflow it.                                    *)
(***************************************************************************)
Kinds == {"string", "int", "bool"}

Unwritten == [tag |-> "unwritten", s |-> <<>>, i |-> 0, b |-> FALSE]
StrVal(x) == [tag |-> "string", s |-> x, i |-> 0, b |-> FALSE]
IntVal(x) == [tag |-> "int", s |-> <<>>, i |-> x, b |-> FALSE]
BoolVal(x) == [tag |-> "bool", s |-> <<>>, i |-> 0, b |-> x]

Target(kind) == [kind |-> kind, val |-> Unwritten, writes |-> 0]

Store(target, v) == [target EXCEPT !.val = v, !.writes = @ + 1]

boolRunes == {"0", "1", "t", "r", "u", "e", "f", "a", "l", "s",
              "T", "R", "U", "E", "F", "A", "L", "S"}

intRunes == {"+", "-"} \cup DigitChars

Converted(n, e, target) == [n |-> n, err |-> e, target |-> target]

\* strconv.ParseBool
ParseBoolTrue == {<<"1">>, <<"t">>, <<"T">>, <<"T", "R", "U", "E">>,
                  <<"t", "r", "u", "e">>, <<"T", "r", "u", "e">>}

ParseBoolFalse == {<<"0">>, <<"f">>, <<"F">>, <<"F", "A", "L", "S", "E">>,
                   <<"f", "a", "l", "s", "e">>, <<"F", "a", "l", "s", "e">>}

\* strconv.ParseInt(s, 10, 64): an optional sign, then one or more digits
ParseIntOk(s) ==
    LET body == IF s # <<>> /\ Head(s) \in {"+", "-"} THEN Tail(s) ELSE s
    IN  body # <<>> /\ \A k \in 1..Len(body) : body[k] \in DigitChars

ParseIntValue(s) ==
    IF ~ParseIntOk(s) THEN 0
    ELSE IF Head(s) = "-" THEN 0 - Atoi(Tail(s), 0)
    ELSE IF Head(s) = "+" THEN Atoi(Tail(s), 0)
    ELSE Atoi(s, 0)

assignBool(sl, target) ==
    IF target.kind # "bool"
    THEN Converted(0, Error(Unwrapped, "expected bool pointer as target"), target)
    ELSE LET nonBoolIndex == IndexExcluded(sl, boolRunes, 0)
             run == IF nonBoolIndex > 0 THEN Slice(sl, 0, nonBoolIndex) ELSE sl
         IN  IF nonBoolIndex = 0
             THEN Converted(0, Error(Unwrapped, "expected leading boolean characters"),
                            target)
             ELSE IF run \in ParseBoolTrue
             THEN Converted(Len(run), Nil, Store(target, BoolVal(TRUE)))
             ELSE IF run \in ParseBoolFalse
             THEN Converted(Len(run), Nil, Store(target, BoolVal(FALSE)))
             ELSE Converted(0, Error(Unwrapped, "error converting to bool"), target)

assignString(sl, target) ==
    IF target.kind # "string"
    THEN Converted(0, Error(Unwrapped, "expected string pointer as target"), target)
    ELSE Converted(Len(sl), Nil, Store(target, StrVal(sl)))

\* the target is stored through before the conversion error is looked at
assignInt(sl, target) ==
    LET nonIntIndex == IndexExcluded(sl, intRunes, 0)
        run == IF nonIntIndex > 0 THEN Slice(sl, 0, nonIntIndex) ELSE sl
    IN  IF nonIntIndex = 0
        THEN Converted(0, Error(Unwrapped, "expected leading numeric characters"), target)
        ELSE IF target.kind # "int"
        THEN Converted(0, Error(Unwrapped, "expected integer pointer as target"), target)
        ELSE IF ~ParseIntOk(run)
        THEN Converted(0, Error(Unwrapped, "error converting to integer"),
                       Store(target, IntVal(0)))
        ELSE Converted(Len(run), Nil, Store(target, IntVal(ParseIntValue(run))))

assignFuncs(value, sl, target) ==
    IF value = verbBool THEN assignBool(sl, target)
    ELSE IF value = verbString THEN assignString(sl, target)
    ELSE assignInt(sl, target)

(***************************************************************************)
(* One iteration of pattern.assign's loop over the verbs of a group        *)
(* (src/pattern.go assign).                                                *)
(***************************************************************************)
\* mutant of stopEvaluateIndex: the verb's width is not looked at
stopEvaluateIndex_IgnoreWidth(verb, trimmed) ==
    LET nextSpaceIndex == IndexSpace(trimmed, 0)
    IN  IF nextSpaceIndex >= 0 THEN nextSpaceIndex ELSE Len(trimmed)

\* mutant of stopEvaluateIndex: whitespace does not stop the evaluation
stopEvaluateIndex_IgnoreSpace(verb, trimmed) ==
    LET w == maxWidth(verb)
    IN  IF w.ok /\ w.width < Len(trimmed) THEN w.width ELSE Len(trimmed)

\* where evaluation of the trimmed substring stops for the verb
stopEvaluateIndex(verb, trimmed) ==
    LET nextSpaceIndex == IndexSpace(trimmed, 0)
        atSpace == IF nextSpaceIndex >= 0 THEN nextSpaceIndex ELSE Len(trimmed)
        w == maxWidth(verb)
    IN  IF w.ok /\ w.width < atSpace THEN w.width ELSE atSpace

\* mutant of evaluated: the whole offered slice counts as evaluated
evaluated_AllOffered(n, stop) == stop

\* how far the substring is re-sliced after a call that evaluated n bytes
evaluated(n, stop) == IF n < stop THEN n ELSE stop

\* the first group at or after g that has a verb; Len(groups) + 1 when none
RECURSIVE nextGroup(_, _)
nextGroup(groups, g) ==
    IF g > Len(groups) THEN g
    ELSE IF Len(groups[g].verbs) > 0 THEN g
    ELSE nextGroup(groups, g + 1)

\* mutant of isConsumed: the test is made after the whitespace is trimmed
isConsumed_AfterTrim(sub) == Len(TrimLeftSpace(sub)) = 0

\* len(substr) == 0 at the top of an iteration: nothing is left for the verb
isConsumed(sub) == Len(sub) = 0

\* a converter call: the target index, the group and the verb's place in it,
\* the substring before trimming, the slice offered, and what came back
Call(index, group, place, verb, before, offered, n, ok) ==
    [index |-> index, group |-> group, place |-> place, verb |-> verb,
     before |-> before, offered |-> offered, n |-> n, ok |-> ok]

\* mutant of AtIndex: the index is reported after it was advanced
AtIndex_Advanced(e, index) == [e EXCEPT !.index = index + 1]

\* "at index %d: %w" in front of an error of the loop
AtIndex(e, index) == [e EXCEPT !.index = index]

(***************************************************************************)
(* ScanString (src/scanner.go), one action per step.                       *)
(***************************************************************************)
Return(e) ==
    /\ err' = e
    /\ pc' = "done"

\* mutant of Validate: a failed check sets every target to its zero value
Validate_ZeroesTargets ==
    /\ pc = "validate"
    /\ IF format = <<>> \/ str = <<>> \/ Len(targetPtrs) = 0
       THEN /\ Return(Error(ErrBadArg, "'format' must not be empty"))
            /\ targetPtrs' = [k \in 1..Len(targetPtrs) |->
                                 Store(targetPtrs[k], Unwritten)]
       ELSE pc' = "newPattern" /\ err' = err /\ UNCHANGED targetPtrs
    /\ UNCHANGED <<scans, format, str, p, groupIdx, verbIdx, substr,
                   targetPtrsIndex, calls>>

\* the three argument checks in front of newPattern
Validate ==
    /\ pc = "validate"
    /\ IF format = <<>>
       THEN Return(Error(ErrBadArg, "'format' must not be empty"))
       ELSE IF str = <<>>
       THEN Return(Error(ErrBadArg, "'str' must not be empty"))
       ELSE IF Len(targetPtrs) = 0
       THEN Return(Error(ErrBadArg, "one or more 'targetPtrs' required"))
       ELSE pc' = "newPattern" /\ err' = err
    /\ UNCHANGED <<scans, format, str, targetPtrs, p, groupIdx, verbIdx, substr,
                   targetPtrsIndex, calls>>

\* newPattern and the comparison of the target count with the verb count
Compile ==
    /\ pc = "newPattern"
    /\ LET r == newPattern(format)
       IN  /\ p' = r.p
           /\ IF r.err # Nil
              THEN Return(r.err)
              ELSE IF Len(targetPtrs) # verbCount(r.p)
              THEN Return(Error(Unwrapped, "count must match"))
              ELSE pc' = "findAllSegmentStarts" /\ err' = err
    /\ UNCHANGED <<scans, format, str, targetPtrs, groupIdx, verbIdx, substr,
                   targetPtrsIndex, calls>>

FindAllSegmentStarts ==
    /\ pc = "findAllSegmentStarts"
    /\ LET r == findAllSegmentStarts(p, str)
       IN  /\ p' = r.p
           /\ IF r.err # Nil
              THEN Return(r.err)
              ELSE pc' = "getTrueSegmentStarts" /\ err' = err
    /\ UNCHANGED <<scans, format, str, targetPtrs, groupIdx, verbIdx, substr,
                   targetPtrsIndex, calls>>

GetTrueSegmentStarts ==
    /\ pc = "getTrueSegmentStarts"
    /\ LET r == getTrueSegmentStarts(p)
       IN  /\ p' = r.p
           /\ IF r.err # Nil
              THEN Return(r.err)
              ELSE pc' = "getCaptureGroups" /\ err' = err
    /\ UNCHANGED <<scans, format, str, targetPtrs, groupIdx, verbIdx, substr,
                   targetPtrsIndex, calls>>

\* on success pattern.assign is entered: its first group's substring is taken
GetCaptureGroups ==
    /\ pc = "getCaptureGroups"
    /\ LET r == getCaptureGroups(p, str)
           g == nextGroup(r.p.captureGroups, 1)
       IN  /\ p' = r.p
           /\ IF r.err # Nil
              THEN /\ Return(r.err)
                   /\ UNCHANGED <<groupIdx, substr>>
              ELSE /\ pc' = "assign"
                   /\ err' = err
                   /\ groupIdx' = g
                   /\ substr' = IF g <= Len(r.p.captureGroups)
                                THEN r.p.captureGroups[g].substr ELSE <<>>
    /\ UNCHANGED <<scans, format, str, targetPtrs, verbIdx, targetPtrsIndex, calls>>

\* one verb of pattern.assign; the return of nil once no verb is left
Assign ==
    /\ pc = "assign"
    /\ IF groupIdx > Len(p.captureGroups)
       THEN /\ Return(Nil)
            /\ UNCHANGED <<targetPtrs, groupIdx, verbIdx, substr, targetPtrsIndex, calls>>
       ELSE
       LET group == p.captureGroups[groupIdx]
           verb == group.verbs[verbIdx]
           trimmed == TrimLeftSpace(substr)
           stop == stopEvaluateIndex(verb, trimmed)
           offered == Slice(trimmed, 0, stop)
       IN  IF Len(targetPtrs) <= targetPtrsIndex
           THEN /\ Return(AtIndex(Error(ErrBug, "no element found at 'targetPtrs'"),
                                  targetPtrsIndex))
                /\ UNCHANGED <<targetPtrs, groupIdx, verbIdx, substr, targetPtrsIndex,
                               calls>>
           ELSE IF isConsumed(substr)
           THEN /\ Return(AtIndex(Error(Unwrapped, "consumed by prior adjacent verb(s)"),
                                  targetPtrsIndex))
                /\ UNCHANGED <<targetPtrs, groupIdx, verbIdx, substr, targetPtrsIndex,
                               calls>>
           ELSE
           LET r == assignFuncs(verb.value, offered, targetPtrs[targetPtrsIndex + 1])
               taken == evaluated(r.n, stop)
               lastOfGroup == verbIdx >= Len(group.verbs)
               g == IF lastOfGroup THEN nextGroup(p.captureGroups, groupIdx + 1)
                    ELSE groupIdx
           IN  /\ targetPtrs' = [targetPtrs EXCEPT ![targetPtrsIndex + 1] = r.target]
               /\ calls' = Append(calls, Call(targetPtrsIndex, groupIdx, verbIdx, verb, substr,
                                              offered, r.n, r.err = Nil))
               /\ IF r.err # Nil
                  THEN /\ Return(AtIndex(r.err, targetPtrsIndex))
                       /\ UNCHANGED <<groupIdx, verbIdx, substr, targetPtrsIndex>>
                  ELSE /\ targetPtrsIndex' = targetPtrsIndex + 1
                       /\ groupIdx' = g
                       /\ verbIdx' = IF lastOfGroup THEN 1 ELSE verbIdx + 1
                       /\ substr' = IF ~lastOfGroup THEN SliceFrom(trimmed, taken)
                                    ELSE IF g <= Len(p.captureGroups)
                                    THEN p.captureGroups[g].substr
                                    ELSE <<>>
                       /\ IF g > Len(p.captureGroups)
                          THEN Return(Nil)
                          ELSE pc' = pc /\ err' = err
    /\ UNCHANGED <<scans, format, str, p>>

Next ==
    \/ Validate
    \/ Compile
    \/ FindAllSegmentStarts
    \/ GetTrueSegmentStarts
    \/ GetCaptureGroups
    \/ Assign

(***************************************************************************)
(* The calls the model is run on.                                          *)
(***************************************************************************)
Targets(kinds) == [k \in 1..Len(kinds) |-> Target(kinds[k])]

TargetLists(kindSet, n) == {Targets(kinds) : kinds \in SeqsUpTo(kindSet, n)}

\* the state at the entry of ScanString(s, fmt, targets...)
Entry(fmt, s, targets) ==
    /\ format = fmt
    /\ str = s
    /\ targetPtrs = targets
    /\ p = Pattern(<<>>, <<>>, <<>>)
    /\ pc = "validate"
    /\ err = Nil
    /\ groupIdx = 1
    /\ verbIdx = 1
    /\ substr = <<>>
    /\ targetPtrsIndex = 0
    /\ calls = <<>>
    /\ scans = <<>>

RECURSIVE Flatten(_)
RECURSIVE Escapes(_)
Flatten(tokens) ==
    IF tokens = <<>> THEN <<>> ELSE Head(tokens) \o Flatten(Tail(tokens))

TokenFormats(tokens, n) == {Flatten(ts) : ts \in SeqsUpTo(tokens, n)}

Calls(formats, strs, targetLists) ==
    \E fmt \in formats, s \in strs, targets \in targetLists : Entry(fmt, s, targets)

\* Matching: every short format over '%', 's' and 'a', and the longer formats
\* made of the segment "a" and the verb %s, on inputs in which "a" repeats.
FmtChars == {"%", "s", "a"}
FmtTokens == {<<"a">>, <<"%", "s">>}
StrChars == {"a", "x"}

Init ==
    Calls(SeqsUpTo(FmtChars, MaxFmtLen) \cup TokenFormats(FmtTokens, MaxFmtTokens),
          SeqsUpTo(StrChars, MaxStrLen),
          TargetLists({"string"}, MaxTargets))

Spec == Init /\ [][Next]_vars

\* String captures: the pieces "a" and "b" around %s verbs, on inputs with
\* whitespace and with text that is in no piece.
StringTokens == {<<"a">>, <<"b">>, <<"%", "s">>}
StringChars == {"a", "b", "x", " "}

InitStrings ==
    Calls(TokenFormats(StringTokens, MaxStringTokens),
          SeqsUpTo(StringChars, MaxStringLen),
          TargetLists({"string"}, MaxTargets))

SpecStrings == InitStrings /\ [][Next]_vars

(***************************************************************************)
(* pattern.capture and pattern.assign as one call each, and the reusable   *)
(* Scanner (src/scanner.go 32-74).  A Scanner holds a pointer to one       *)
(* pattern: p is that pattern, shared by every call on the Scanner and on  *)
(* its copies.                                                             *)
(***************************************************************************)
RECURSIVE assignLoop(_, _, _, _, _, _)
assignLoop(groups, g, v, sub, index, targets) ==
    IF g > Len(groups) THEN [err |-> Nil, targetPtrs |-> targets]
    ELSE IF v > Len(groups[g].verbs)
    THEN assignLoop(groups, g + 1, 1,
                    IF g < Len(groups) THEN groups[g + 1].substr ELSE <<>>,
                    index, targets)
    ELSE LET verb == groups[g].verbs[v]
             trimmed == TrimLeftSpace(sub)
             stop == stopEvaluateIndex(verb, trimmed)
         IN  IF Len(targets) <= index
             THEN [err |-> AtIndex(Error(ErrBug, "no element found at 'targetPtrs'"), index),
                   targetPtrs |-> targets]
             ELSE IF isConsumed(sub)
             THEN [err |-> AtIndex(Error(Unwrapped, "consumed by prior adjacent verb(s)"),
                                   index),
                   targetPtrs |-> targets]
             ELSE LET r == assignFuncs(verb.value, Slice(trimmed, 0, stop), targets[index + 1])
                      written == [targets EXCEPT ![index + 1] = r.target]
                  IN  IF r.err # Nil
                      THEN [err |-> AtIndex(r.err, index), targetPtrs |-> written]
                      ELSE assignLoop(groups, g, v + 1,
                                      SliceFrom(trimmed, evaluated(r.n, stop)),
                                      index + 1, written)

\* pattern.assign, from its first group to its return
assign(pat, targets) ==
    assignLoop(pat.captureGroups, 1, 1,
               IF Len(pat.captureGroups) > 0 THEN pat.captureGroups[1].substr ELSE <<>>,
               0, targets)

\* pattern.capture: the three steps, stopping at the first error
capture(pat, s) ==
    LET found == findAllSegmentStarts(pat, s)
        resolved == getTrueSegmentStarts(found.p)
        grouped == getCaptureGroups(resolved.p, s)
    IN  IF found.err # Nil THEN found
        ELSE IF resolved.err # Nil THEN resolved
        ELSE grouped

\* the one-shot ScanString as a function of its arguments
ScanString(s, fmt, targets) ==
    LET compiled == newPattern(fmt)
        captured == capture(compiled.p, s)
    IN  IF fmt = <<>>
        THEN [err |-> Error(ErrBadArg, "'format' must not be empty"), targetPtrs |-> targets]
        ELSE IF s = <<>>
        THEN [err |-> Error(ErrBadArg, "'str' must not be empty"), targetPtrs |-> targets]
        ELSE IF Len(targets) = 0
        THEN [err |-> Error(ErrBadArg, "one or more 'targetPtrs' required"),
              targetPtrs |-> targets]
        ELSE IF compiled.err # Nil
        THEN [err |-> compiled.err, targetPtrs |-> targets]
        ELSE IF Len(targets) # verbCount(compiled.p)
        THEN [err |-> Error(Unwrapped, "count must match"), targetPtrs |-> targets]
        ELSE IF captured.err # Nil
        THEN [err |-> captured.err, targetPtrs |-> targets]
        ELSE assign(captured.p, targets)

\* mutant of reset: the capture groups of the last scan are kept
reset_KeepGroups(pat) ==
    [pat EXCEPT !.segments = [i \in 1..Len(pat.segments) |->
                                 [pat.segments[i] EXCEPT !.starts = <<>>]],
                !.trueSegmentStarts = <<>>]

\* pattern.reset: the occurrences, the resolved starts and the capture
\* groups of the last scan are cleared
reset(pat) ==
    [pat EXCEPT !.segments = [i \in 1..Len(pat.segments) |->
                                 [pat.segments[i] EXCEPT !.starts = <<>>]],
                !.trueSegmentStarts = <<>>,
                !.captureGroups = <<>>]

\* TestScanner_ScanString
ScannerTestFormat == <<"%", "5", "s", "%", "d">>
ScannerTestStrs ==
    {<<"f", "0", "0", " ", "2", "2">>,
     <<"f", "o", "o", "2", "2", "1", "0", "0", "0">>}

ScanTokens == {<<"a">>, <<"%", "s">>}
ScanChars == {"a", "x"}
ScanFormats == TokenFormats(ScanTokens, MaxScanTokens) \cup {ScannerTestFormat}
ScanStrs == SeqsUpTo(ScanChars, MaxScanStr) \cup ScannerTestStrs
ScanTargetLists == TargetLists({"string"}, MaxTargets) \cup {Targets(<<"string", "int">>)}

\* a call of Scanner.ScanString: the n-th on its Scanner, its arguments, its
\* position, the error it returns, and the pattern as the call found it
Scan(n, s, targets, at, e, found) ==
    [n |-> n, str |-> s, targetPtrs |-> targets, pc |-> at, err |-> e, found |-> found]

Idle == Scan(0, <<>>, <<>>, "idle", Nil, Pattern(<<>>, <<>>, <<>>))

ScanAt(k, at) == scans' = [scans EXCEPT ![k].pc = at]

ScanReturn(k, e) == scans' = [scans EXCEPT ![k].pc = "done", ![k].err = e]

OneShotUnused == UNCHANGED <<format, str, targetPtrs, pc, err, groupIdx, verbIdx, substr,
                             targetPtrsIndex, calls>>

\* the caller makes its next call on the Scanner once the last has returned
ScanBegin(k) ==
    /\ scans[k].pc \in {"idle", "done"}
    /\ scans[k].n < MaxScans
    /\ \E s \in ScanStrs, targets \in ScanTargetLists :
           scans' = [scans EXCEPT ![k] = Scan(scans[k].n + 1, s, targets, "validate", Nil, p)]
    /\ UNCHANGED p
    /\ OneShotUnused

\* the two argument checks in front of reset
ScanValidate(k) ==
    /\ scans[k].pc = "validate"
    /\ IF scans[k].str = <<>>
       THEN ScanReturn(k, Error(ErrBadArg, "'str' must not be empty"))
       ELSE IF Len(scans[k].targetPtrs) # verbCount(p)
       THEN ScanReturn(k, Error(Unwrapped, "count must match"))
       ELSE ScanAt(k, "reset")
    /\ UNCHANGED p
    /\ OneShotUnused

ScanReset(k) ==
    /\ scans[k].pc = "reset"
    /\ p' = reset(p)
    /\ ScanAt(k, "findAllSegmentStarts")
    /\ OneShotUnused

ScanFindAllSegmentStarts(k) ==
    /\ scans[k].pc = "findAllSegmentStarts"
    /\ LET r == findAllSegmentStarts(p, scans[k].str)
       IN  /\ p' = r.p
           /\ IF r.err # Nil THEN ScanReturn(k, r.err) ELSE ScanAt(k, "getTrueSegmentStarts")
    /\ OneShotUnused

ScanGetTrueSegmentStarts(k) ==
    /\ scans[k].pc = "getTrueSegmentStarts"
    /\ LET r == getTrueSegmentStarts(p)
       IN  /\ p' = r.p
           /\ IF r.err # Nil THEN ScanReturn(k, r.err) ELSE ScanAt(k, "getCaptureGroups")
    /\ OneShotUnused

ScanGetCaptureGroups(k) ==
    /\ scans[k].pc = "getCaptureGroups"
    /\ LET r == getCaptureGroups(p, scans[k].str)
       IN  /\ p' = r.p
           /\ IF r.err # Nil THEN ScanReturn(k, r.err) ELSE ScanAt(k, "assign")
    /\ OneShotUnused

\* pattern.assign has a value receiver: it runs on the pattern as it is when
\* the call is made
ScanAssign(k) ==
    /\ scans[k].pc = "assign"
    /\ LET r == assign(p, scans[k].targetPtrs)
       IN  scans' = [scans EXCEPT ![k].pc = "done", ![k].err = r.err,
                                  ![k].targetPtrs = r.targetPtrs]
    /\ UNCHANGED p
    /\ OneShotUnused

ScanStep(k) ==
    \/ ScanValidate(k)
    \/ ScanReset(k)
    \/ ScanFindAllSegmentStarts(k)
    \/ ScanGetTrueSegmentStarts(k)
    \/ ScanGetCaptureGroups(k)
    \/ ScanAssign(k)

\* one caller: call after call
NextScanner == ScanBegin(1) \/ ScanStep(1)

\* NewScanner(fmt) has returned a Scanner, from which calls are made
NewScanner(fmt, callList) ==
    /\ newPattern(fmt).err = Nil
    /\ format = fmt
    /\ p = newPattern(fmt).p
    /\ scans = callList
    /\ str = <<>>
    /\ targetPtrs = <<>>
    /\ pc = "scanner"
    /\ err = Nil
    /\ groupIdx = 1
    /\ verbIdx = 1
    /\ substr = <<>>
    /\ targetPtrsIndex = 0
    /\ calls = <<>>

InitScanner == \E fmt \in ScanFormats : NewScanner(fmt, <<Idle>>)

SpecScanner == InitScanner /\ [][NextScanner]_vars

\* two callers: one call each on the same Scanner, their steps interleaved
NextConcurrent == \E k \in 1..Len(scans) : ScanStep(k)

InitConcurrent ==
    \E fmt \in TokenFormats(ScanTokens, MaxScanTokens),
       s1, s2 \in SeqsUpTo(ScanChars, MaxScanStr),
       t1, t2 \in TargetLists({"string"}, MaxTargets) :
        NewScanner(fmt, <<Scan(1, s1, t1, "validate", Nil, newPattern(fmt).p),
                          Scan(1, s2, t2, "validate", Nil, newPattern(fmt).p)>>)

SpecConcurrent == InitConcurrent /\ [][NextConcurrent]_vars

\* Assigning: adjacent verbs with and without widths on inputs of digits,
\* other text and whitespace, into targets of every kind; and the calls of
\* TestScanString (src/scanner_test.go) that are about assignment, with the
\* width example of the specification and two failing variants of a test.
AssignTokens ==
    {<<"%", "d">>, <<"%", "s">>, <<"%", "t">>, <<"%", "1", "d">>, <<"%", "2", "s">>}
AssignChars == {"1", "x", " "}

HandlesWidthAndWhitespace ==
    [format |-> <<"%", "5", "s">>,
     str |-> <<" ", " ", " ", "a", "b", "c", "d", "e", "f", "g", "h", "i", "j", "k">>,
     kinds |-> <<"string">>]

HandlesAdjacentVerbs ==
    [format |-> <<"%", "5", "s", "%", "d">>,
     str |-> <<" ", " ", " ", "1", "2", "3", "4", "5", "6">>,
     kinds |-> <<"string", "int">>]

NavigatesNonNumeric ==
    [format |-> <<"%", "d", "%", "s">>,
     str |-> <<" ", " ", " ", "1", "2", "3", "4", "5", "6", "f", "o", "o">>,
     kinds |-> <<"int", "string">>]

ConsecutiveWithWidth ==
    [format |-> <<"%", "3", "d", "%", "4", "d", "%", "d">>,
     str |-> <<"1", "0", "0", "2", "0", "0", "0", "3", "0", "0", "0", "0">>,
     kinds |-> <<"int", "int", "int">>]

LessThanMaxWidth ==
    [format |-> <<"%", "3", "d", "%", "4", "d", "%", "d">>,
     str |-> <<"1", "0", " ", "0", "2", "0", " ", "0", "0", "3", "0", " ", "0", "0", "0">>,
     kinds |-> <<"int", "int", "int">>]

EmptyStringForStringVerb ==
    [format |-> <<"%", "3", "d", "%", "s">>,
     str |-> <<" ", "1", "2", " ", " ">>,
     kinds |-> <<"int", "string">>]

EmptyStringForIntVerb ==
    [format |-> <<"%", "5", "s", "%", "d">>,
     str |-> <<" ", " ", "a", "b", "c", " ", " ", " ">>,
     kinds |-> <<"string", "int">>]

WrongTargetType ==
    [format |-> <<"G", "i", "m", "m", "e", " ", "a", " ", "%", "s", ",", " ", "a", "n", "y", " ", "%", "s">>,
     str |-> <<"G", "i", "m", "m", "e", " ", "a", " ", "n", "u", "m", "b", "e", "r", ",", " ", "a", "n", "y", " ", "n", "u", "m", "b", "e", "r">>,
     kinds |-> <<"string", "int">>]

AdjacentVerbCompetition ==
    [format |-> <<"n", "o", " ", "w", "i", "d", "t", "h", " ", "s", "p", "e", "c", "i", "f", "i", "e", "d", " ", "f", "o", "r", " ", "%", "d", "%", "s">>,
     str |-> <<"n", "o", " ", "w", "i", "d", "t", "h", " ", "s", "p", "e", "c", "i", "f", "i", "e", "d", " ", "f", "o", "r", " ", "1", "0", "0", "0", "0", "0">>,
     kinds |-> <<"int", "string">>]

WidthTruncation ==
    [format |-> <<"%", "5", "s", "%", "s">>,
     str |-> <<"a", "b", "c", "d", "e", "f", "g", "h", "i", "j", "k">>,
     kinds |-> <<"string", "string">>]

SecondOfThreeFails ==
    [format |-> <<"%", "3", "d", "%", "4", "d", "%", "d">>,
     str |-> <<"1", "0", "0", "x">>,
     kinds |-> <<"int", "int", "int">>]

SecondOfThreeMistyped ==
    [format |-> <<"%", "3", "d", "%", "4", "d", "%", "d">>,
     str |-> <<"1", "0", "0", "2", "0", "0", "0", "3", "0", "0", "0", "0">>,
     kinds |-> <<"int", "string", "int">>]

TestCalls ==
    {HandlesWidthAndWhitespace, HandlesAdjacentVerbs, NavigatesNonNumeric,
     ConsecutiveWithWidth, LessThanMaxWidth, EmptyStringForStringVerb,
     EmptyStringForIntVerb, WrongTargetType, AdjacentVerbCompetition,
     WidthTruncation, SecondOfThreeFails, SecondOfThreeMistyped}

InitAssign ==
    \/ Calls(TokenFormats(AssignTokens, MaxVerbTokens),
             SeqsUpTo(AssignChars, MaxAssignLen),
             TargetLists(Kinds, MaxTargets))
    \/ \E t \in TestCalls : Entry(t.format, t.str, Targets(t.kinds))

SpecAssign == InitAssign /\ [][Next]_vars

\* Escapes: up to MaxEscapes "%%" in front of verbs and a literal, on inputs
\* that hold the percent signs the escapes stand for.
EscTokens == {<<"%", "d">>, <<"%", "s">>, <<"y">>}
EscChars == {"%", "1", "y"}

Escapes(k) == IF k = 0 THEN <<>> ELSE <<"%", "%">> \o Escapes(k - 1)

InitEscape ==
    Calls({Escapes(k) \o f : k \in 0..MaxEscapes, f \in TokenFormats(EscTokens, MaxEscTokens)},
          SeqsUpTo(EscChars, MaxEscLen),
          TargetLists({"string", "int"}, MaxTargets))

SpecEscape == InitEscape /\ [][Next]_vars

\* Compiling: formats of escapes, verbs with and without a width and the
\* letters that also name a verb, and every short format over '%', a digit
\* and a verb letter.
CompileTokens ==
    {<<"%", "%">>, <<"%", "d">>, <<"%", "5", "d">>, <<"%", "s">>, <<"d">>, <<"a">>}
CompileChars == {"%", "5", "d"}
CompileStrChars == {"%", "d", "5"}

InitCompile ==
    Calls(TokenFormats(CompileTokens, MaxCompileTokens)
              \cup SeqsUpTo(CompileChars, MaxCompileLen),
          SeqsUpTo(CompileStrChars, MaxCompileStr),
          TargetLists({"int"}, MaxTargets))

SpecCompile == InitCompile /\ [][Next]_vars

(***************************************************************************)
(* What the properties speak about.                                        *)
(***************************************************************************)
Done == pc = "done"

Succeeded == Done /\ err = Nil

NoTargetWritten == \A k \in 1..Len(targetPtrs) : targetPtrs[k].writes = 0

\* the errors ScanString returns before pattern.capture is called
ArgumentFailures ==
    {"'format' must not be empty", "'str' must not be empty",
     "one or more 'targetPtrs' required", "unsupported verb",
     "consecutive verbs", "count must match"}

\* ScanString has returned, and not before it called pattern.capture
Captured ==
    /\ Done
    /\ err.msg \notin ArgumentFailures
    /\ err.kind # Panic

\* the segment's text lies at offset o of s
Occurs(segment, s, o) == HasPrefixAt(s, segment.value, o)

OccursIn(segment, s) == \E o \in 0..Len(s) : Occurs(segment, s, o)

\* one offset per segment, each a place where the segment's text occurs, every
\* segment ending strictly before the next one starts
Alignments(segments, s) ==
    {a \in [1..Len(segments) -> 0..Len(s)] :
        /\ \A i \in 1..Len(segments) : Occurs(segments[i], s, a[i])
        /\ \A i \in 1..(Len(segments) - 1) :
               a[i] + Len(segments[i].value) < a[i + 1]}

\* the occurrences a leftmost-first search without overlaps records: an
\* occurrence that no recorded occurrence to its left reaches into
Recorded(segment, s) ==
    LET rec[o \in 0..Len(s)] ==
            /\ Occurs(segment, s, o)
            /\ \A o2 \in 0..(o - 1) : o2 + Len(segment.value) > o => ~rec[o2]
    IN  {o \in 0..Len(s) : rec[o]}

RecordedAlignments(segments, s) ==
    {a \in Alignments(segments, s) :
        \A i \in 1..Len(segments) : a[i] \in Recorded(segments[i], s)}

\* the recorded occurrences of the last segment that end an alignment
Anchors(segments, s) ==
    {a[Len(segments)] : a \in RecordedAlignments(segments, s)}

(***************************************************************************)
(* C1                                                                      *)
(***************************************************************************)
\* pattern.getTrueSegmentStarts has run
AfterResolve ==
    \/ pc \in {"getCaptureGroups", "assign"}
    \/ Captured /\ err.msg # "could not find substring"

\* C1 as claimed, in the case it insists on: when two distinct alignments share
\* the occurrence of the last segment and differ in an earlier segment's, the
\* resolver does not pick one; ScanString fails with ErrMultipleMatches and
\* writes no target.
C1_SharedLastOccurrenceFails ==
    (/\ AfterResolve
     /\ \E a, b \in Alignments(p.segments, str) :
            a # b /\ a[Len(p.segments)] = b[Len(p.segments)])
        => (Done /\ err.kind = ErrMultipleMatches /\ NoTargetWritten)

\* C1 as amended: ScanString fails with ErrMultipleMatches, writing no target,
\* exactly when two or more recorded occurrences of the last segment each end
\* an alignment over recorded occurrences; alignments that share the last
\* segment's occurrence never raise it.
C1_TwoAnchorsFail ==
    (Captured /\ Len(p.segments) > 0)
        => /\ (Cardinality(Anchors(p.segments, str)) >= 2)
                  <=> (err.kind = ErrMultipleMatches)
           /\ (err.kind = ErrMultipleMatches) => NoTargetWritten

\* two segments, two anchors: ErrMultipleMatches is returned
C1_Witness ==
    /\ Captured
    /\ Len(p.segments) >= 2
    /\ Cardinality(Anchors(p.segments, str)) >= 2
    /\ err.kind = ErrMultipleMatches

(***************************************************************************)
(* C3                                                                      *)
(***************************************************************************)
\* C3: a segment that does not occur makes the occurrence search fail with
\* ErrNoMatch before any alignment is tried; segments that all occur but admit
\* no alignment make ScanString fail with ErrNoMatch; no target is written.
C3_NoMatch ==
    Captured =>
        /\ (\E i \in 1..Len(p.segments) : ~OccursIn(p.segments[i], str))
               => /\ err = Error(ErrNoMatch, "could not find substring")
                  /\ p.trueSegmentStarts = <<>>
                  /\ p.captureGroups = <<>>
                  /\ NoTargetWritten
        /\ Alignments(p.segments, str) = {}
               => /\ err.kind = ErrNoMatch
                  /\ NoTargetWritten

\* every segment occurs, no alignment exists, and the resolver reports it
C3_Witness ==
    /\ Captured
    /\ Len(p.segments) >= 2
    /\ \A i \in 1..Len(p.segments) : OccursIn(p.segments[i], str)
    /\ Alignments(p.segments, str) = {}
    /\ err = Error(ErrNoMatch, "no set of starts")

(***************************************************************************)
(* C5                                                                      *)
(***************************************************************************)
\* C5: every failure of ScanString's argument validation (empty format, empty
\* input, no targets, target count, unsupported verb, adjacent verbs) is an
\* ErrBadArg.
C5_ArgumentFailuresAreBadArg ==
    (Done /\ err.msg \in ArgumentFailures) => err.kind = ErrBadArg

(***************************************************************************)
(* C9                                                                      *)
(***************************************************************************)
\* the alignment was resolved: getCaptureGroups ran on a non-empty list of starts
Resolved ==
    /\ Captured
    /\ Len(p.segments) > 0
    /\ Len(p.trueSegmentStarts) = Len(p.segments)

LeadingCaptureEmpty == beginsWithVerb(p) /\ p.trueSegmentStarts[1] = 0

TrailingCaptureEmpty ==
    LET n == Len(p.segments)
    IN  endsWithVerb(p) /\ p.trueSegmentStarts[n] + Len(p.segments[n].value) = Len(str)

\* C9: a leading verb with the first segment at offset 0, or a trailing verb
\* with the last segment ending the input, makes ScanString fail with
\* ErrEmptyCapture; no target is written and no group has an empty substring.
C9_EmptyCapture ==
    (Resolved /\ (LeadingCaptureEmpty \/ TrailingCaptureEmpty))
        => /\ err.kind = ErrEmptyCapture
           /\ NoTargetWritten
           /\ \A g \in 1..Len(p.captureGroups) : p.captureGroups[g].substr # <<>>

\* the trailing case, behind a leading group that was created
C9_Witness ==
    /\ Resolved
    /\ TrailingCaptureEmpty
    /\ ~LeadingCaptureEmpty
    /\ beginsWithVerb(p)
    /\ err.kind = ErrEmptyCapture

(***************************************************************************)
(* C4                                                                      *)
(***************************************************************************)
\* the format read as literal pieces and %s verbs: a piece is a maximal run of
\* characters in front of a "%s" or of the end
RECURSIVE Pieces(_, _, _)
Pieces(fmt, piece, acc) ==
    LET flush == IF piece = <<>> THEN acc
                 ELSE Append(acc, [verb |-> FALSE, text |-> piece])
    IN  IF fmt = <<>> THEN flush
        ELSE IF HasPrefixAt(fmt, <<"%", "s">>, 0)
        THEN Pieces(SubSeq(fmt, 3, Len(fmt)), <<>>,
                    Append(flush, [verb |-> TRUE, text |-> <<>>]))
        ELSE Pieces(Tail(fmt), Append(piece, Head(fmt)), acc)

OccurrencesOf(text, s) == {o \in 0..Len(s) : HasPrefixAt(s, text, o)}

OffsetOf(text, s) == CHOOSE o \in OccurrencesOf(text, s) : TRUE

\* the input between the pieces that bound the verb at place i of the pieces
Between(pieces, i, s) ==
    LET from == IF i = 1 THEN 0
                ELSE OffsetOf(pieces[i - 1].text, s) + Len(pieces[i - 1].text)
        to == IF i = Len(pieces) THEN Len(s) ELSE OffsetOf(pieces[i + 1].text, s)
    IN  Slice(s, from, to)

VerbPlaces(pieces) == {i \in 1..Len(pieces) : pieces[i].verb}

\* place of the k-th verb among the pieces
RECURSIVE PlaceOfVerb(_, _, _)
PlaceOfVerb(pieces, k, i) ==
    IF pieces[i].verb
    THEN IF k = 1 THEN i ELSE PlaceOfVerb(pieces, k - 1, i + 1)
    ELSE PlaceOfVerb(pieces, k, i + 1)

\* literal pieces without '%', single %s verbs between them, one string target
\* per verb; every piece occurs exactly once in the input, the pieces lie in
\* format order, and there is input between the pieces that bound a verb
MatchesOnce(fmt, s, targets) ==
    LET pieces == Pieces(fmt, <<>>, <<>>)
        lits == {i \in 1..Len(pieces) : ~pieces[i].verb}
    IN  /\ VerbPlaces(pieces) # {}
        /\ Cardinality(VerbPlaces(pieces)) = Len(targets)
        /\ \A k \in 1..Len(targets) : targets[k].kind = "string"
        /\ \A i \in lits : \A c \in 1..Len(pieces[i].text) : pieces[i].text[c] # "%"
        /\ \A i \in 1..(Len(pieces) - 1) : ~(pieces[i].verb /\ pieces[i + 1].verb)
        /\ \A i \in lits : Cardinality(OccurrencesOf(pieces[i].text, s)) = 1
        /\ \A i \in VerbPlaces(pieces) : Between(pieces, i, s) # <<>>
        /\ \A i, j \in lits :
               i < j => OffsetOf(pieces[i].text, s) + Len(pieces[i].text)
                            <= OffsetOf(pieces[j].text, s)

\* the first word of a capture: what follows its leading whitespace, up to the
\* next whitespace
FirstWord(sub) ==
    LET isWord(from, to) ==
            /\ \A c \in 1..from : sub[c] = " "
            /\ \A c \in (from + 1)..to : sub[c] # " "
            /\ to = Len(sub) \/ sub[to + 1] = " "
        from == CHOOSE f \in 0..Len(sub) :
                    (\A c \in 1..f : sub[c] = " ") /\ (f = Len(sub) \/ sub[f + 1] # " ")
        to == CHOOSE t \in from..Len(sub) : isWord(from, t)
    IN  Slice(sub, from, to)

\* C4 as claimed: on such a format and input ScanString succeeds and every
\* target receives exactly the input between the pieces that bound its verb,
\* whitespace included.
C4_WholeSubstring ==
    (Done /\ MatchesOnce(format, str, targetPtrs))
        => /\ err = Nil
           /\ \A k \in 1..Len(targetPtrs) :
                  targetPtrs[k].val =
                      StrVal(Between(Pieces(format, <<>>, <<>>),
                                     PlaceOfVerb(Pieces(format, <<>>, <<>>), k, 1), str))

\* C4 as amended: on such a format and input ScanString succeeds and every
\* target receives the first whitespace-delimited word of the input between the
\* pieces that bound its verb (the whole of it when it holds no whitespace, the
\* empty string when it is all whitespace), stored once.
C4_FirstWord ==
    (Done /\ MatchesOnce(format, str, targetPtrs))
        => /\ err = Nil
           /\ \A k \in 1..Len(targetPtrs) :
                  /\ targetPtrs[k].writes = 1
                  /\ targetPtrs[k].val =
                         StrVal(FirstWord(Between(Pieces(format, <<>>, <<>>),
                                    PlaceOfVerb(Pieces(format, <<>>, <<>>), k, 1), str)))

\* two verbs around and between two pieces, one capture with inner whitespace
C4_Witness ==
    /\ Succeeded
    /\ MatchesOnce(format, str, targetPtrs)
    /\ Len(targetPtrs) = 2
    /\ \E k \in 1..2 :
           LET sub == Between(Pieces(format, <<>>, <<>>),
                              PlaceOfVerb(Pieces(format, <<>>, <<>>), k, 1), str)
           IN  FirstWord(sub) # sub /\ FirstWord(sub) # <<>>

\* ---------------------------------------------------------------------
\* What the converters were handed, read off the recorded calls.

\* the number of whitespace characters in front of sub
LeadingSpaces(sub) ==
    CHOOSE f \in 0..Len(sub) :
        (\A c \in 1..f : sub[c] = " ") /\ (f = Len(sub) \/ sub[f + 1] # " ")

AfterSpaces(sub) == SliceFrom(sub, LeadingSpaces(sub))

\* the length of the longest prefix of t whose characters are all in alphabet
LeadingRun(t, alphabet) ==
    CHOOSE n \in 0..Len(t) :
        (\A c \in 1..n : t[c] \in alphabet) /\ (n = Len(t) \/ t[n + 1] \notin alphabet)

\* the length of the longest prefix of t without whitespace
WordLen(t) ==
    CHOOSE n \in 0..Len(t) :
        (\A c \in 1..n : t[c] # " ") /\ (n = Len(t) \/ t[n + 1] = " ")

\* what a call that evaluated c.n bytes left for the next verb of its group
Remainder(c) == SliceFrom(AfterSpaces(c.before), c.n)

TargetKinds == [k \in 1..Len(targetPtrs) |-> targetPtrs[k].kind]

IsCall(t) == format = t.format /\ str = t.str /\ TargetKinds = t.kinds

\* C6: for every verb the slice handed to the converter is the remaining
\* capture without its leading whitespace, up to the first whitespace
\* character, and cut to the verb's width when the width is smaller; "%5s%s"
\* on "abcdefghijk" stores "abcde" and "fghijk".
C6_WidthAndWhitespace ==
    /\ \A i \in 1..Len(calls) :
           LET c == calls[i]
               t == AfterSpaces(c.before)
               w == maxWidth(c.verb)
               bound == IF w.ok /\ w.width < WordLen(t) THEN w.width ELSE WordLen(t)
           IN  /\ c.offered = Slice(t, 0, bound)
               /\ w.ok => Len(c.offered) <= w.width
               /\ \A k \in 1..Len(c.offered) : c.offered[k] # " "
    /\ (Done /\ IsCall(WidthTruncation)) =>
           /\ err = Nil
           /\ targetPtrs[1].val = StrVal(<<"a", "b", "c", "d", "e">>)
           /\ targetPtrs[2].val = StrVal(<<"f", "g", "h", "i", "j", "k">>)

\* a width cut a word short and the next verb of the group got the rest
C6_Witness ==
    \E i \in 1..Len(calls) :
        LET c == calls[i]
            t == AfterSpaces(c.before)
            w == maxWidth(c.verb)
        IN  /\ w.ok /\ w.width > 0 /\ w.width < WordLen(t)
            /\ Len(c.offered) = w.width
            /\ i < Len(calls)
            /\ calls[i + 1].group = c.group
            /\ calls[i + 1].before = SliceFrom(t, w.width)

\* C7: an integer or boolean verb evaluates the leading run of its alphabet
\* in the offered slice and no more, a string verb all of it; the next verb
\* of the same group starts at the first byte that was not evaluated, and
\* what remains is always a suffix of the group's substring; "%d%s" on
\* "   123456foo" stores 123456 and "foo".
C7_SharedCapture ==
    /\ \A i \in 1..Len(calls) :
           LET c == calls[i]
               sub == p.captureGroups[c.group].substr
           IN  /\ c.n <= Len(c.offered)
               /\ (c.ok /\ c.verb.value = verbInt) => c.n = LeadingRun(c.offered, intRunes)
               /\ (c.ok /\ c.verb.value = verbBool) => c.n = LeadingRun(c.offered, boolRunes)
               /\ (c.ok /\ c.verb.value = verbString) => c.n = Len(c.offered)
               /\ \E k \in 0..Len(sub) : c.before = SliceFrom(sub, k)
               /\ (i < Len(calls) /\ calls[i + 1].group = c.group) =>
                      calls[i + 1].before = Remainder(c)
    /\ (pc = "assign" /\ verbIdx > 1) =>
           /\ calls # <<>>
           /\ substr = Remainder(calls[Len(calls)])
    /\ (Done /\ IsCall(NavigatesNonNumeric)) =>
           /\ err = Nil
           /\ targetPtrs[1].val = IntVal(123456)
           /\ targetPtrs[2].val = StrVal(<<"f", "o", "o">>)

\* an integer or boolean verb evaluated less than it was offered and the
\* next verb of the group went on from there
C7_Witness ==
    \E i \in 1..Len(calls) :
        /\ calls[i].ok
        /\ calls[i].verb.value \in {verbInt, verbBool}
        /\ 0 < calls[i].n /\ calls[i].n < Len(calls[i].offered)
        /\ i < Len(calls)
        /\ calls[i + 1].group = calls[i].group
        /\ calls[i + 1].ok
        /\ calls[i + 1].offered # <<>>

\* the value a successful call stored
ConvertedValue(c) ==
    LET run == Slice(c.offered, 0, c.n)
    IN  IF c.verb.value = verbString THEN StrVal(c.offered)
        ELSE IF c.verb.value = verbInt THEN IntVal(ParseIntValue(run))
        ELSE BoolVal(run \in ParseBoolTrue)

AssignFailed == Done /\ err # Nil /\ err.index >= 0

\* C8: when assignment fails at the verb of target k, the error carries
\* index k, no verb after it was attempted and the targets after k are
\* unwritten, and the targets before k hold the values converted for their
\* verbs.
C8_AbortAtIndex ==
    AssignFailed =>
        LET k == err.index
        IN  /\ k < Len(targetPtrs)
            /\ k = Cardinality({i \in 1..Len(calls) : calls[i].ok})
            /\ Len(calls) <= k + 1
            /\ \A i \in 1..Len(calls) : calls[i].index = i - 1 /\ (calls[i].ok <=> i <= k)
            /\ \A j \in 1..Len(targetPtrs) :
                   /\ j - 1 > k => targetPtrs[j].writes = 0 /\ targetPtrs[j].val = Unwritten
                   /\ j - 1 < k => /\ targetPtrs[j].writes = 1
                                   /\ targetPtrs[j].val = ConvertedValue(calls[j])

\* the second of three verbs failed: one target written, one left alone
C8_Witness ==
    /\ AssignFailed
    /\ err.index = 1
    /\ Len(targetPtrs) = 3
    /\ targetPtrs[1].writes = 1
    /\ targetPtrs[3].writes = 0

ConsumedError == Error(Unwrapped, "consumed by prior adjacent verb(s)")

AllSpace(sub) == \A c \in 1..Len(sub) : sub[c] = " "

\* C10: when the verbs before it have evaluated all of the group's substring,
\* a later verb of the group fails with the 'consumed' error at its own
\* target index and its target is not written; a converter is never called
\* on an empty remainder, and one that is all whitespace gets the empty
\* string without this error.
C10_Consumed ==
    /\ \A i \in 1..Len(calls) :
           /\ calls[i].before # <<>>
           /\ AllSpace(calls[i].before) => calls[i].offered = <<>>
    /\ (Done /\ calls # <<>>) =>
           LET last == calls[Len(calls)]
               more == last.ok /\ last.place < Len(p.captureGroups[last.group].verbs)
           IN  /\ more => /\ Remainder(last) = <<>>
                          /\ err = AtIndex(ConsumedError, last.index + 1)
                          /\ targetPtrs[last.index + 2].writes = 0
               /\ err.msg = ConsumedError.msg => more
    /\ (Done /\ calls = <<>>) => err.msg # ConsumedError.msg

\* the first verb of a group left nothing and the second one failed for it
C10_Witness ==
    /\ Done
    /\ err.msg = ConsumedError.msg
    /\ err.index = 1
    /\ targetPtrs[1].writes = 1
    /\ targetPtrs[2].writes = 0

\* the verbs attached to the capture groups, in group order
AttachedVerbs == Flatten([g \in 1..Len(p.captureGroups) |-> p.captureGroups[g].verbs])

\* C2: on success every target has been written exactly once, target k by
\* the k-th verb of the format, and the verbs attached to the capture groups
\* are, in order, the pattern's verbs.
C2_EveryTargetWrittenOnce ==
    Succeeded =>
        /\ AttachedVerbs = p.verbs
        /\ Len(calls) = Len(targetPtrs)
        /\ \A k \in 1..Len(targetPtrs) :
               /\ targetPtrs[k].writes = 1
               /\ k <= Len(calls) => /\ calls[k].verb = p.verbs[k]
                                     /\ targetPtrs[k].val = ConvertedValue(calls[k])

(***************************************************************************)
(* The format as its text reads: literal characters, escapes and verbs.    *)
(***************************************************************************)
\* the first position at or after i of fmt that holds no flag character
RECURSIVE AfterFlags(_, _)
AfterFlags(fmt, i) ==
    IF i <= Len(fmt) /\ fmt[i] \in flags THEN AfterFlags(fmt, i + 1) ELSE i

Literal(c) == [verb |-> FALSE, bad |-> FALSE, text |-> c, value |-> "", flags |-> <<>>, start |-> 0]

VerbItem(value, fl, start) ==
    [verb |-> TRUE, bad |-> FALSE, text |-> "", value |-> value, flags |-> fl, start |-> start]

BadItem == [verb |-> FALSE, bad |-> TRUE, text |-> "", value |-> "", flags |-> <<>>, start |-> 0]

\* the items of fmt from position i on: "%%" reads as the literal '%', and a
\* '%' with flag characters and a verb letter reads as a verb that starts at
\* the offset of its '%'; any other use of '%' is not a format
RECURSIVE Items(_, _)
Items(fmt, i) ==
    IF i > Len(fmt) THEN <<>>
    ELSE IF fmt[i] # "%" THEN <<Literal(fmt[i])>> \o Items(fmt, i + 1)
    ELSE IF i < Len(fmt) /\ fmt[i + 1] = "%" THEN <<Literal("%")>> \o Items(fmt, i + 2)
    ELSE LET j == AfterFlags(fmt, i + 1)
         IN  IF j <= Len(fmt) /\ isSupportedVerb(fmt[j])
             THEN <<VerbItem(fmt[j], SubSeq(fmt, i + 1, j - 1), i - 1)>> \o Items(fmt, j + 1)
             ELSE <<BadItem>>

WellFormed(fmt) == \A k \in 1..Len(Items(fmt, 1)) : ~Items(fmt, 1)[k].bad

\* the maximal runs of literal items, each with its offset in the format
\* after unescaping
RECURSIVE Runs(_, _, _, _, _)
Runs(items, k, offset, run, acc) ==
    LET closed == IF run = <<>> THEN acc
                  ELSE Append(acc, [value |-> run, formatStart |-> offset - Len(run)])
    IN  IF k > Len(items) THEN closed
        ELSE IF items[k].verb
        THEN Runs(items, k + 1, offset + 2 + Len(items[k].flags), <<>>, closed)
        ELSE Runs(items, k + 1, offset + 1, Append(run, items[k].text), acc)

LiteralRuns(fmt) == Runs(Items(fmt, 1), 1, 0, <<>>, <<>>)

\* newPattern has returned without an error
Compiled == pc \notin {"validate", "newPattern"} /\ (Done => err.msg \notin ArgumentFailures /\ err.kind # Panic)

SegmentsOf(pat) ==
    [i \in 1..Len(pat.segments) |->
        [value |-> pat.segments[i].value, formatStart |-> pat.segments[i].formatStart]]

\* C11: the segments of a compiled format are the maximal runs of literal
\* text between its verbs, in their places, with every "%%" collapsed to one
\* '%'; literal text that reads like a verb after an escape stays literal.
C11_SegmentsAreLiteralRuns ==
    (Compiled /\ WellFormed(format)) => SegmentsOf(p) = LiteralRuns(format)

\* newPattern has been called and has returned
AfterCompile ==
    /\ pc \notin {"validate", "newPattern"}
    /\ err.msg \notin {"'format' must not be empty", "'str' must not be empty",
                       "one or more 'targetPtrs' required"}

\* two verbs with nothing between them, of one kind, the first without a width
UnboundedPair(fmt) ==
    LET items == Items(fmt, 1)
    IN  \E k \in 1..(Len(items) - 1) :
            /\ items[k].verb /\ items[k + 1].verb
            /\ items[k].value = items[k + 1].value
            /\ ~maxWidth(items[k]).ok

\* C12: newPattern fails with ErrBadArg for consecutive verbs exactly when
\* two verbs with no literal text between them have the same kind and the
\* first has no width; every other format of supported verbs compiles.
C12_ConsecutiveVerbs ==
    (AfterCompile /\ WellFormed(format)) =>
        IF UnboundedPair(format)
        THEN err = Error(ErrBadArg, "consecutive verbs")
        ELSE err.kind \notin {ErrBadArg, Panic}

(***************************************************************************)
(* The Scanner                                                             *)
(***************************************************************************)
\* the same targets before any call has written them
Fresh(targets) == [k \in 1..Len(targets) |-> Target(targets[k].kind)]

Outcome(c) == [err |-> c.err, targetPtrs |-> c.targetPtrs]

Returned(k) == scans[k].pc = "done"

\* a call of Scanner.ScanString on a Scanner that NewScanner has just made
FreshScan(s, fmt, targets) ==
    LET pat == newPattern(fmt).p
        captured == capture(reset(pat), s)
    IN  IF s = <<>>
        THEN [err |-> Error(ErrBadArg, "'str' must not be empty"), targetPtrs |-> targets]
        ELSE IF Len(targets) # verbCount(pat)
        THEN [err |-> Error(Unwrapped, "count must match"), targetPtrs |-> targets]
        ELSE IF captured.err # Nil
        THEN [err |-> captured.err, targetPtrs |-> targets]
        ELSE assign(captured.p, targets)

\* C13 as stated: every call on a Scanner returns the error and writes the
\* values of a one-shot ScanString of its input against the same format.
C13_SameAsOneShot ==
    \A k \in 1..Len(scans) :
        Returned(k) =>
            Outcome(scans[k]) = ScanString(scans[k].str, format, Fresh(scans[k].targetPtrs))

\* C13: every call on a Scanner, whatever the calls before it left in the
\* pattern, returns the error and writes the values of the same call on a
\* Scanner just made; and these are the one-shot ScanString's when the
\* format is not empty and the call has a target.
C13_ReuseLeavesNoResidue ==
    \A k \in 1..Len(scans) :
        Returned(k) =>
            LET c == scans[k]
                fresh == Fresh(c.targetPtrs)
            IN  /\ Outcome(c) = FreshScan(c.str, format, fresh)
                /\ (format # <<>> /\ Len(c.targetPtrs) > 0) =>
                       Outcome(c) = ScanString(c.str, format, fresh)

\* a second call found the capture groups of the first one in the pattern,
\* and wrote its own values
C13_Witness ==
    \E k \in 1..Len(scans) :
        /\ Returned(k)
        /\ scans[k].n = 2
        /\ scans[k].found.captureGroups # <<>>
        /\ scans[k].err = Nil
        /\ scans[k].targetPtrs # <<>>
        /\ p.captureGroups # scans[k].found.captureGroups

\* C14: two calls that run at the same time on one Scanner, with different
\* inputs and targets of their own, each return the error and write the
\* values they would alone, however their steps interleave.
C14_ConcurrentScansAreIsolated ==
    \A k \in 1..Len(scans) :
        Returned(k) =>
            Outcome(scans[k]) = FreshScan(scans[k].str, format, Fresh(scans[k].targetPtrs))

(***************************************************************************)
(* C15                                                                     *)
(***************************************************************************)
\* TestScanString "handles multiple candidates"
MultipleCandidatesFormat ==
    <<"a","n","d"," ","a"," ","%","d"," ","a","n","d"," ","a"," ","%","d",
      " ","a","n","d"," ","a"," ","%","d","!">>

MultipleCandidatesStr ==
    <<"a","n","d"," ","a"," ","1"," ","a","n","d"," ","a"," ","2"," ","a","n",
      "d"," ","3","!"," ","a","n","d"," ","a"," ","2"," ","a","n","d"," ","a",
      " ","3"," ","a","n","d"," ","a"," ","4","!">>

MultipleCandidates ==
    [format |-> MultipleCandidatesFormat, str |-> MultipleCandidatesStr,
     kinds |-> <<"int", "int", "int">>]

InitResolve ==
    \/ Init
    \/ Entry(MultipleCandidatesFormat, MultipleCandidatesStr,
             Targets(<<"int", "int", "int">>))

SpecResolve == InitResolve /\ [][Next]_vars

\* the chain pulled back from an occurrence of the last segment: each earlier
\* segment at its latest recorded occurrence that ends strictly before the
\* offset of the segment after it, -1 where there is none
TightestChain(segments, s, anchor) ==
    LET n == Len(segments)
        t[k \in 0..(n - 1)] ==
            LET i == n - k
            IN  IF k = 0 THEN anchor
                ELSE IF t[k - 1] < 0 THEN -1
                ELSE LET fit == {o \in Recorded(segments[i], s) :
                                    o + Len(segments[i].value) < t[k - 1]}
                     IN  IF fit = {} THEN -1
                         ELSE CHOOSE o \in fit : \A o2 \in fit : o2 <= o
    IN  [i \in 1..n |-> t[n - i]]

CompleteChains(segments, s) ==
    {c \in {TightestChain(segments, s, anchor) :
                anchor \in Recorded(segments[Len(segments)], s)} :
        \A i \in 1..Len(segments) : c[i] >= 0}

\* C15: when exactly one complete chain exists, getTrueSegmentStarts succeeds
\* and the offsets used for capturing are that chain: the last segment at the
\* anchoring occurrence, every earlier segment at its latest recorded
\* occurrence that ends strictly before the offset chosen for the segment after
\* it; "and a %d and a %d and a %d!" on
\* "and a 1 and a 2 and 3! and a 2 and a 3 and a 4!" yields 2, 3, 4.
C15_TightestChain ==
    /\ (AfterResolve /\ Len(p.segments) > 0
            /\ Cardinality(CompleteChains(p.segments, str)) = 1)
           => /\ err.kind \notin {ErrNoMatch, ErrMultipleMatches}
              /\ p.trueSegmentStarts \in CompleteChains(p.segments, str)
    /\ (Done /\ IsCall(MultipleCandidates))
           => /\ err = Nil
              /\ [k \in 1..3 |-> targetPtrs[k].val] = <<IntVal(2), IntVal(3), IntVal(4)>>

\* the example has succeeded, with an earlier segment that had a later and an
\* earlier occurrence to choose from
C15_Witness ==
    /\ Done
    /\ IsCall(MultipleCandidates)
    /\ err = Nil
    /\ p.trueSegmentStarts = <<23, 30, 38, 46>>
    /\ Cardinality(Recorded(p.segments[1], str)) > 1

(***************************************************************************)
(* C16                                                                     *)
(***************************************************************************)
\* TestScanString "consumes spaces in special cases"
ConsumesSpaces ==
    [format |-> <<"t", "h", "e", " ", "%", " ", "s", " ", "i", "s", " ", "l", "o", "b", "s", "t", "e", "r", " ", "b", "i", "s", "q", "u", "e">>,
     str |-> <<"t", "h", "e", " ", "b", "e", "s", "t", " ", "a", "p", "p", " ", "i", "n", " ", "m", "y", " ", "o", "p", "i", "n", "i", "o", "n", " ", "i", "s", " ", "l", "o", "b", "s", "t", "e", "r", " ", "b", "i", "s", "q", "u", "e">>,
     kinds |-> <<"string">>]

\* the space flag in front of %s, between the pieces "a" and "b", on inputs
\* with whitespace
SpaceFlagTokens == {<<"a">>, <<"b">>, <<"%", " ", "s">>, <<"%", "s">>}

InitSpaceFlag ==
    \/ Calls(TokenFormats(SpaceFlagTokens, MaxStringTokens),
             SeqsUpTo(StringChars, MaxStringLen),
             TargetLists({"string"}, MaxTargets))
    \/ Entry(ConsumesSpaces.format, ConsumesSpaces.str, Targets(ConsumesSpaces.kinds))

SpecSpaceFlag == InitSpaceFlag /\ [][Next]_vars

HasSpaceFlag(v) == v.value = "s" /\ \E i \in 1..Len(v.flags) : v.flags[i] = " "

\* C16: a %s verb written with the space flag, alone between its bounding
\* segments, is not cut at the first whitespace: its target receives the whole
\* capture, inner spaces kept (stated for captures that neither begin nor end
\* with whitespace); "the % s is lobster bisque" on
\* "the best app in my opinion is lobster bisque" assigns
\* "best app in my opinion".
C16_SpaceFlagKeepsSpaces ==
    /\ Succeeded =>
           \A i \in 1..Len(calls) :
               LET c == calls[i]
                   group == p.captureGroups[c.group]
               IN  (/\ HasSpaceFlag(c.verb)
                    /\ Len(group.verbs) = 1
                    /\ ~IsSpace(group.substr[1])
                    /\ ~IsSpace(group.substr[Len(group.substr)]))
                       => targetPtrs[c.index + 1].val = StrVal(group.substr)
    /\ (Done /\ IsCall(ConsumesSpaces))
           => /\ err = Nil
              /\ targetPtrs[1].val = StrVal(<<"b", "e", "s", "t", " ", "a", "p", "p", " ", "i", "n", " ", "m", "y", " ", "o", "p", "i", "n", "i", "o", "n">>)

(***************************************************************************)
(* C17                                                                     *)
(***************************************************************************)
\* C17 as claimed: when some alignment exists, counting every position at
\* which a segment's text occurs (also positions that overlap an earlier
\* occurrence of the same segment), ScanString does not fail with ErrNoMatch.
C17_NoMatchOnlyWithoutAlignment ==
    (Captured /\ Alignments(p.segments, str) # {}) => err.kind # ErrNoMatch

\* C17: ScanString fails with ErrNoMatch exactly when no alignment exists over
\* the recorded occurrences, those of the non-overlapping scan from the left.
C17_NoMatchOnlyWithoutRecordedAlignment ==
    Captured => (err.kind = ErrNoMatch <=> RecordedAlignments(p.segments, str) = {})

\* a segment has an occurrence that the scan does not record, an alignment over
\* the recorded ones exists, and the call did not fail with ErrNoMatch
C17_Witness ==
    /\ Captured
    /\ Len(p.segments) >= 2
    /\ \E i \in 1..Len(p.segments), o \in 0..Len(str) :
           Occurs(p.segments[i], str, o) /\ o \notin Recorded(p.segments[i], str)
    /\ RecordedAlignments(p.segments, str) # {}
    /\ err.kind # ErrNoMatch

(***************************************************************************)
(* C18                                                                     *)
(***************************************************************************)
\* pattern.getTrueSegmentStarts has returned nil
ResolveSucceeded == AfterResolve /\ err.kind \notin {ErrNoMatch, ErrMultipleMatches}

\* C18: whenever getTrueSegmentStarts succeeds, trueSegmentStarts holds one
\* offset per segment in segment order, each offset is a place where that
\* segment's text occurs in the input, and every segment ends strictly before
\* the next one starts; ErrBug 'no string to capture between matching
\* segments' is never returned.
C18_ResolvedOffsets ==
    /\ ResolveSucceeded =>
           /\ Len(p.trueSegmentStarts) = Len(p.segments)
           /\ \A i \in 1..Len(p.segments) :
                  Occurs(p.segments[i], str, p.trueSegmentStarts[i])
           /\ \A i \in 1..(Len(p.segments) - 1) :
                  p.trueSegmentStarts[i] + Len(p.segments[i].value)
                      < p.trueSegmentStarts[i + 1]
    /\ err.msg # "no string to capture between segments"

\* three segments have been resolved and the interior captures cut
C18_Witness ==
    /\ ResolveSucceeded
    /\ pc = "assign"
    /\ Len(p.segments) >= 3
    /\ Len(p.trueSegmentStarts) = Len(p.segments)
    /\ Len(p.captureGroups) >= 2

(***************************************************************************)
(* C19                                                                     *)
(***************************************************************************)
\* C19: for every format that compiles with at least one verb and every input
\* that resolves to an alignment, each capture group has at least one verb and
\* the groups' verbs are, in order, the verbs of the format; ErrBug 'no verbs
\* assigned to captured substring' is never returned, with any number of "%%"
\* in front of a verb.
C19_EveryGroupHasVerbs ==
    /\ err.msg # "no verbs assigned to captured substring"
    /\ (pc = "assign" /\ Len(p.verbs) > 0) =>
           /\ \A g \in 1..Len(p.captureGroups) : Len(p.captureGroups[g].verbs) > 0
           /\ AttachedVerbs = p.verbs

(***************************************************************************)
(* C20                                                                     *)
(***************************************************************************)
\* the verb's text lies in the format at the verb's start: '%', the flags, the
\* verb character
VerbInPlace(fmt, v) ==
    /\ v.start >= 0
    /\ v.start + Len(v.flags) + 2 <= Len(fmt)
    /\ fmt[v.start + 1] = "%"
    /\ \A j \in 1..Len(v.flags) : fmt[v.start + 1 + j] = v.flags[j]
    /\ fmt[v.start + Len(v.flags) + 2] = v.value

\* C20: for every format that compiles, each recorded verb's start is the
\* offset of the verb's own '%' in the original format and its flags are
\* exactly the flag characters between that '%' and the verb character; flags
\* collected before a '%' that ended verb mode are not carried into a later
\* verb.
C20_VerbStartAndFlags ==
    pc = "findAllSegmentStarts" =>
        \A k \in 1..Len(p.verbs) : VerbInPlace(format, p.verbs[k])

(***************************************************************************)
(* C21                                                                     *)
(***************************************************************************)
\* C21: compilation is total: for every format newPattern returns a pattern or
\* an error and never panics; the text of every verb found by parseVerbs is
\* present in the rest of the unescaped format, so the split at the verb
\* yields two halves.
C21_CompilationIsTotal ==
    pc # "newPattern" => err # Error(Panic, "index out of range")

(***************************************************************************)
(* C22                                                                     *)
(***************************************************************************)
\* pattern.findAllSegmentStarts has returned nil
FoundAll == pc = "getTrueSegmentStarts" \/ AfterResolve

\* C22: the occurrence search ends for every segment and input (a segment is
\* never empty, so every hit moves the search forward), and the list recorded
\* for a segment is exactly the leftmost-first non-overlapping occurrences:
\* strictly increasing offsets, each a place where the segment's text occurs,
\* consecutive offsets at least the segment's length apart, and no occurrence
\* of the text wholly before the first, between two consecutive or after the
\* last recorded occurrence.
C22_RecordedOccurrences ==
    FoundAll =>
        \A i \in 1..Len(p.segments) :
            LET segment == p.segments[i]
                width == Len(segment.value)
                starts == segment.starts
                n == Len(starts)
                \* the end of the k-th recorded occurrence, 0 before the first
                from(k) == IF k = 0 THEN 0 ELSE starts[k] + width
                \* the start of the occurrence after the k-th, the end of the
                \* input after the last
                to(k) == IF k = n THEN Len(str) ELSE starts[k + 1]
            IN  /\ width > 0
                /\ n > 0
                /\ n <= Len(str)
                /\ \A k \in 1..n : Occurs(segment, str, starts[k])
                /\ \A k \in 1..(n - 1) : starts[k] + width <= starts[k + 1]
                /\ \A k \in 0..n : \A o \in 0..Len(str) :
                       (from(k) <= o /\ o + width <= to(k)) => ~Occurs(segment, str, o)
                /\ {starts[k] : k \in 1..n} = Recorded(segment, str)

\* a segment of two characters has been searched in an input where it occurs
\* at overlapping places, and two occurrences have been recorded
C22_Witness ==
    /\ FoundAll
    /\ \E i \in 1..Len(p.segments) :
           /\ Len(p.segments[i].value) >= 2
           /\ Len(p.segments[i].starts) >= 2
           /\ \E o \in 0..Len(str) :
                  /\ Occurs(p.segments[i], str, o)
                  /\ o \notin Recorded(p.segments[i], str)

(***************************************************************************)
(* C23                                                                     *)
(***************************************************************************)
\* calls of ScanString, and calls made one after another on a Scanner
InitFrame == Init \/ InitScanner

NextFrame ==
    \/ Next
    \/ pc = "scanner" /\ NextScanner

SpecFrame == InitFrame /\ [][NextFrame]_vars

\* the call is in a stage before pattern.assign, or has returned an error that
\* is not one of pattern.assign ("at index %d: ...")
BeforeAssign(at, e) ==
    /\ at \notin {"assign", "idle", "scanner"}
    /\ at = "done" => e # Nil /\ e.index = -1

Untouched(targets) == \A k \in 1..Len(targets) : targets[k] = Target(targets[k].kind)

\* C23: targets are written only in the assign stage: while ScanString or
\* Scanner.ScanString is in argument validation, compilation or capture, and
\* when it has failed there, every target holds the value it had before the
\* call.
C23_TargetsWrittenOnlyInAssign ==
    /\ BeforeAssign(pc, err) => Untouched(targetPtrs)
    /\ \A k \in 1..Len(scans) :
           BeforeAssign(scans[k].pc, scans[k].err) => Untouched(scans[k].targetPtrs)

\* the second call on a Scanner, made after a call that cut capture groups, has
\* failed in capture with targets to write
C23_Witness ==
    /\ Len(scans) = 1
    /\ scans[1].pc = "done"
    /\ scans[1].n = 2
    /\ Len(scans[1].targetPtrs) > 0
    /\ scans[1].err.kind \in {ErrNoMatch, ErrMultipleMatches}
    /\ scans[1].found.captureGroups # <<>>

====
